---- MODULE Spec2Model ----
(***************************************************************************)
(* Model of the spectral processing pipeline of                            *)
(* Interactive_Parameter_Explorer.py: the scan store and its energy index, *)
(* the spectrum averager, the energy interpolator and the peak detector.   *)
(*                                                                         *)
(* m/z values and collision energies are integers; intensities are exact   *)
(* rationals <<n, d>> (d > 0, lowest terms), so that linear interpolation  *)
(* and means are computed, not approximated.                               *)
(***************************************************************************)
EXTENDS Integers, Sequences, FiniteSets, TLC

VARIABLES reader, pos, scan_energy_list, pc, scan_filter, spectra,
          selected_scan, args, result

vars == <<reader, pos, scan_energy_list, pc, scan_filter, spectra,
          selected_scan, args, result>>

storeVarsButPc == <<reader, pos, scan_energy_list, scan_filter, spectra,
                    selected_scan>>

(***************************************************************************)
(* Bounds of the model.                                                    *)
(***************************************************************************)
MaxScans == 3
MaxSpectra == 2

(***************************************************************************)
(* Exact rational arithmetic.                                              *)
(***************************************************************************)
Abs(n) == IF n < 0 THEN -n ELSE n

RECURSIVE GCD(_, _)
GCD(a, b) == IF b = 0 THEN a ELSE GCD(b, a % b)

Norm(n, d) ==
    LET s == IF d < 0 THEN -1 ELSE 1
        g == GCD(Abs(n), Abs(d))
    IN  IF n = 0 THEN <<0, 1>> ELSE <<(s * n) \div g, (s * d) \div g>>

R(i) == <<i, 1>>
RAdd(a, b) == Norm(a[1] * b[2] + b[1] * a[2], a[2] * b[2])
RSub(a, b) == Norm(a[1] * b[2] - b[1] * a[2], a[2] * b[2])
RMul(a, b) == Norm(a[1] * b[1], a[2] * b[2])
RDiv(a, b) == Norm(a[1] * b[2], a[2] * b[1])
RLt(a, b) == a[1] * b[2] < b[1] * a[2]
RLe(a, b) == a[1] * b[2] <= b[1] * a[2]

RECURSIVE RSum(_)
RSum(s) == IF s = <<>> THEN R(0) ELSE RAdd(Head(s), RSum(Tail(s)))

RSeq(s) == [i \in 1..Len(s) |-> R(s[i])]

SetMin(S) == CHOOSE x \in S : \A y \in S : x <= y
SetMax(S) == CHOOSE x \in S : \A y \in S : y <= x

(***************************************************************************)
(* Outcomes of a call: a value, or the exception the call ends with.       *)
(***************************************************************************)
Ok(v) == [status |-> "ok", value |-> v]
Raise(e) == [status |-> e]
NoResult == [status |-> "none"]
NoArgs == [fn |-> "none"]
NoScan == [none |-> TRUE]
NoLabel == -1

(***************************************************************************)
(* numpy helpers, by their documented behaviour.                           *)
(***************************************************************************)
\* np.unique: the sorted distinct values of an array.
RECURSIVE SortedSeq(_)
SortedSeq(S) ==
    IF S = {} THEN <<>> ELSE LET m == SetMin(S) IN <<m>> \o SortedSeq(S \ {m})

NpUnique(a) == SortedSeq({a[i] : i \in 1..Len(a)})

\* np.diff: consecutive differences.
NpDiff(a) == [i \in 1..(IF Len(a) = 0 THEN 0 ELSE Len(a) - 1) |-> a[i + 1] - a[i]]

\* np.arange(start, stop, step) for step > 0: start + i*step while < stop.
ArangeLen(start, stop, step) ==
    IF stop <= start THEN 0 ELSE ((stop - start) + step - 1) \div step

NpArange(start, stop, step) ==
    [i \in 1..ArangeLen(start, stop, step) |-> start + (i - 1) * step]

\* np.interp(x, xp, fp, left, right) at one query point x, xp increasing.
NpInterp(x, xp, fp, left, right) ==
    IF x < xp[1] THEN left
    ELSE IF x > xp[Len(xp)] THEN right
    ELSE LET j == SetMax({k \in 1..Len(xp) : xp[k] <= x})
         IN  IF j = Len(xp) \/ xp[j] = x THEN fp[j]
             ELSE RAdd(fp[j],
                       RMul(RDiv(RSub(fp[j + 1], fp[j]), R(xp[j + 1] - xp[j])),
                            R(x - xp[j])))

(***************************************************************************)
(* average_spectra(spectra, bin_width=None, filter_string=None).           *)
(* The result carries the returned spectrum and the argument list as the   *)
(* call leaves it: avg_spec is a shallow copy of spectra[0], so the write  *)
(* of the filter string goes to the scanList shared with spectra[0].       *)
(***************************************************************************)
FilterLabel(first, last, label) ==
    [av |-> TRUE, first |-> first.start_time, last |-> last.start_time,
     label |-> label]

RawFilter == [av |-> FALSE, first |-> 0, last |-> 0, label |-> NoLabel]

\* MergeIntensity with np.interp's default ends (left=0, right=0 left out):
\* outside a spectrum's range its first or last intensity is taken.
MergeIntensityEnds(spectra_, reference_mz) ==
    [b \in 1..Len(reference_mz) |->
        RSum([k \in 1..Len(spectra_) |->
                 NpInterp(reference_mz[b], spectra_[k].mz, spectra_[k].intensity,
                          spectra_[k].intensity[1],
                          spectra_[k].intensity[Len(spectra_[k].intensity)])])]

MergeIntensity(spectra_, reference_mz) ==
    [b \in 1..Len(reference_mz) |->
        RSum([k \in 1..Len(spectra_) |->
                 NpInterp(reference_mz[b], spectra_[k].mz,
                          spectra_[k].intensity, R(0), R(0))])]

\* MeanIntensity dividing by the number of bins, not of spectra.
MeanOverBins(merge_intensity, n) ==
    [b \in 1..Len(merge_intensity) |->
        RDiv(merge_intensity[b], R(Len(merge_intensity)))]

MeanIntensity(merge_intensity, n) ==
    [b \in 1..Len(merge_intensity) |-> RDiv(merge_intensity[b], R(n))]

\* Lines 36-56 for a list with a first element.
AverageNonEmpty(spectra_, bin_width, filter_string) ==
    LET first == spectra_[1]
        reference_scan == NpUnique(first.mz)
    IN  IF bin_width = NoLabel /\ Len(reference_scan) < 2
        THEN Raise("ValueError")
        ELSE LET bw == IF bin_width = NoLabel
                       THEN SetMin({NpDiff(reference_scan)[i] :
                                      i \in 1..(Len(reference_scan) - 1)})
                       ELSE bin_width
                 reference_mz == NpArange(first.lower, first.upper, bw)
             IN  IF \E k \in 1..Len(spectra_) : Len(spectra_[k].mz) = 0
                 THEN Raise("ValueError")
                 ELSE LET fs == FilterLabel(first, spectra_[Len(spectra_)],
                                            filter_string)
                          avg_spec ==
                              [first EXCEPT
                                 !.mz = reference_mz,
                                 !.intensity =
                                     MeanIntensity(
                                         MergeIntensity(spectra_, reference_mz),
                                         Len(spectra_)),
                                 !.filter_string = fs]
                      IN  [status |-> "ok", value |-> avg_spec,
                           spectra |-> [spectra_ EXCEPT ![1].filter_string = fs]]

\* average_spectra returning an empty spectrum for an empty list instead of
\* failing on spectra[0].
AverageUnchecked(spectra_, bin_width, filter_string) ==
    IF Len(spectra_) = 0
    THEN [status |-> "ok", value |-> [mz |-> <<>>, intensity |-> <<>>],
          spectra |-> spectra_]
    ELSE AverageNonEmpty(spectra_, bin_width, filter_string)

\* spectra[0] on an empty list raises IndexError at line 36.
average_spectra(spectra_, bin_width, filter_string) ==
    IF Len(spectra_) = 0 THEN Raise("IndexError")
    ELSE AverageNonEmpty(spectra_, bin_width, filter_string)

(***************************************************************************)
(* interpolate_spectra(spectra, target_energies, energies).                *)
(* The range test sits inside the loop over the m/z index positions of the *)
(* first intensity array, after the read of intensity_arrays[j][i].        *)
(***************************************************************************)
Occurrences(target_energies, t) ==
    Cardinality({k \in 1..Len(target_energies) : target_energies[k] = t})

\* InterpolatedIntensity reading the previous m/z index position.
InterpolatedIntensityShifted(intensity_arrays, energies, target_energy, i) ==
    LET i0 == IF i > 1 THEN i - 1 ELSE i
        intensities == [j \in 1..Len(energies) |-> intensity_arrays[j][i0]]
    IN  NpInterp(target_energy, energies, intensities,
                 intensities[1], intensities[Len(energies)])

InterpolatedIntensity(intensity_arrays, energies, target_energy, i) ==
    LET intensities == [j \in 1..Len(energies) |-> intensity_arrays[j][i]]
    IN  NpInterp(target_energy, energies, intensities,
                 intensities[1], intensities[Len(energies)])

OutsideRange(target_energy, energies) ==
    target_energy < energies[1] \/ target_energy > energies[Len(energies)]

interpolate_spectra(spectra_, target_energies, energies) ==
    LET intensity_arrays == [k \in 1..Len(spectra_) |-> spectra_[k].intensity]
        targets == {target_energies[k] : k \in 1..Len(target_energies)}
    IN  IF Len(spectra_) = 0 THEN Raise("IndexError")
        ELSE LET n == Len(intensity_arrays[1])
             IN  IF n = 0 THEN Ok([t \in targets |-> <<>>])
                 ELSE IF Len(spectra_) < Len(energies) THEN Raise("IndexError")
                 ELSE IF \E j \in 1..Len(energies) : Len(intensity_arrays[j]) < 1
                      THEN Raise("IndexError")
                 ELSE IF targets # {} /\ Len(energies) = 0 THEN Raise("IndexError")
                 ELSE IF \E t \in targets : OutsideRange(t, energies)
                      THEN Raise("ValueError")
                 ELSE IF \E j \in 1..Len(energies) : Len(intensity_arrays[j]) < n
                      THEN Raise("IndexError")
                 ELSE Ok([t \in targets |->
                            LET occ == Occurrences(target_energies, t)
                            IN  [m \in 1..(n * occ) |->
                                    InterpolatedIntensity(intensity_arrays, energies,
                                                          t, ((m - 1) \div occ) + 1)]])

(***************************************************************************)
(* scipy.signal.find_peaks(x, height, prominence, width, distance), by the *)
(* stages of its documentation: local maxima (flat tops count once, at     *)
(* their midpoint), then the height, distance, prominence and width        *)
(* conditions in that order.  Indices are 0-based as in the source.        *)
(***************************************************************************)
At(x, i) == x[i + 1]

RMinOf(S) == CHOOSE v \in S : \A w \in S : RLe(v, w)
RMaxOf(S) == CHOOSE v \in S : \A w \in S : RLe(w, v)

IsPlateauPeak(x, l, r) ==
    /\ 1 <= l /\ l <= r /\ r <= Len(x) - 2
    /\ \A i \in l..r : At(x, i) = At(x, l)
    /\ RLt(At(x, l - 1), At(x, l))
    /\ RLt(At(x, r + 1), At(x, l))

LocalMaxima(x) ==
    SortedSeq({(l + r) \div 2 : <<l, r>> \in
                 {lr \in (0..(Len(x) - 1)) \X (0..(Len(x) - 1)) :
                     IsPlateauPeak(x, lr[1], lr[2])}})

RECURSIVE KeepIf(_, _)
KeepIf(s, keep) ==
    IF s = <<>> THEN <<>>
    ELSE (IF keep[1] THEN <<Head(s)>> ELSE <<>>)
         \o KeepIf(Tail(s), Tail(keep))

\* _select_by_property with a lower limit only: pmin <= value.
SelectByProperty(values, pmin) ==
    [k \in 1..Len(values) |-> RLe(pmin, values[k])]

\* np.argsort of the priorities (stable for arrays this short).
RECURSIVE ArgSort(_, _)
ArgSort(priority, S) ==
    IF S = {} THEN <<>>
    ELSE LET k == CHOOSE a \in S : \A b \in S :
                     \/ RLt(priority[a], priority[b])
                     \/ (priority[a] = priority[b] /\ a <= b)
         IN  <<k>> \o ArgSort(priority, S \ {k})

\* _select_by_peak_distance: from the highest priority down, a kept peak
\* removes every other peak closer than `distance`.
RECURSIVE DistanceKeep(_, _, _, _, _)
DistanceKeep(peaks, order, distance, i, keep) ==
    IF i = 0 THEN keep
    ELSE LET j == order[i]
         IN  IF ~keep[j] THEN DistanceKeep(peaks, order, distance, i - 1, keep)
             ELSE DistanceKeep(peaks, order, distance, i - 1,
                    [k \in 1..Len(peaks) |->
                        IF k # j /\ Abs(peaks[k] - peaks[j]) < distance
                        THEN FALSE ELSE keep[k]])

SelectByPeakDistance(peaks, priority, distance) ==
    DistanceKeep(peaks, ArgSort(priority, 1..Len(peaks)), distance, Len(peaks),
                 [k \in 1..Len(peaks) |-> TRUE])

\* _peak_prominences without a window: the bases are searched up to the
\* next higher sample on each side.
LeftReach(x, peak) ==
    LET higher == {i \in 0..peak : RLt(At(x, peak), At(x, i))}
    IN  IF higher = {} THEN 0 ELSE SetMax(higher) + 1

RightReach(x, peak) ==
    LET higher == {i \in peak..(Len(x) - 1) : RLt(At(x, peak), At(x, i))}
    IN  IF higher = {} THEN Len(x) - 1 ELSE SetMin(higher) - 1

LeftMin(x, peak) == RMinOf({At(x, i) : i \in LeftReach(x, peak)..peak})
RightMin(x, peak) == RMinOf({At(x, i) : i \in peak..RightReach(x, peak)})

LeftBase(x, peak) ==
    SetMax({i \in LeftReach(x, peak)..peak : At(x, i) = LeftMin(x, peak)})
RightBase(x, peak) ==
    SetMin({i \in peak..RightReach(x, peak) : At(x, i) = RightMin(x, peak)})

Prominence(x, peak) ==
    RSub(At(x, peak), RMaxOf({LeftMin(x, peak), RightMin(x, peak)}))

\* _peak_widths at rel_height 0.5: the crossings of the half-prominence
\* level, linearly interpolated between samples.
WidthHeight(x, peak) ==
    RSub(At(x, peak), RMul(Prominence(x, peak), <<1, 2>>))

LeftIp(x, peak) ==
    LET h == WidthHeight(x, peak)
        i_min == LeftBase(x, peak)
        i == SetMax({k \in i_min..peak : k = i_min \/ RLe(At(x, k), h)})
    IN  IF RLt(At(x, i), h)
        THEN RAdd(R(i), RDiv(RSub(h, At(x, i)), RSub(At(x, i + 1), At(x, i))))
        ELSE R(i)

RightIp(x, peak) ==
    LET h == WidthHeight(x, peak)
        i_max == RightBase(x, peak)
        i == SetMin({k \in peak..i_max : k = i_max \/ RLe(At(x, k), h)})
    IN  IF RLt(At(x, i), h)
        THEN RSub(R(i), RDiv(RSub(h, At(x, i)), RSub(At(x, i - 1), At(x, i))))
        ELSE R(i)

PeakWidth(x, peak) == RSub(RightIp(x, peak), LeftIp(x, peak))

Map1(x, peaks) == [k \in 1..Len(peaks) |-> At(x, peaks[k])]

FindPeaks(x, height, prominence, width, distance) ==
    LET p0 == LocalMaxima(x)
        p1 == KeepIf(p0, SelectByProperty(Map1(x, p0), height))
        p2 == KeepIf(p1, SelectByPeakDistance(p1, Map1(x, p1), distance))
        p3 == KeepIf(p2, SelectByProperty(
                            [k \in 1..Len(p2) |-> Prominence(x, p2[k])], prominence))
        p4 == KeepIf(p3, SelectByProperty(
                            [k \in 1..Len(p3) |-> PeakWidth(x, p3[k])], width))
    IN  [peaks |-> p4,
         peak_heights |-> Map1(x, p4),
         prominences |-> [k \in 1..Len(p4) |-> Prominence(x, p4[k])],
         left_ips |-> [k \in 1..Len(p4) |-> LeftIp(x, p4[k])],
         right_ips |-> [k \in 1..Len(p4) |-> RightIp(x, p4[k])]]

(***************************************************************************)
(* peak_detection(spectrum, threshold, distance, prominence, width,        *)
(* centroid).  max() of an empty intensity array raises ValueError.        *)
(***************************************************************************)
RelativeThreshold(intensity, threshold) ==
    RMul(RMaxOf({intensity[i] : i \in 1..Len(intensity)}), Norm(threshold, 100))

\* AboveThreshold with >= in place of >.
AtOrAboveThreshold(intensity, relative_threshold) ==
    SortedSeq({i \in 0..(Len(intensity) - 1) :
                 RLe(relative_threshold, At(intensity, i))})

\* np.where(intensity > relative_threshold)[0]
AboveThreshold(intensity, relative_threshold) ==
    SortedSeq({i \in 0..(Len(intensity) - 1) :
                 RLt(relative_threshold, At(intensity, i))})

peak_detection(spectrum, threshold, distance, prominence, width, centroid) ==
    IF Len(spectrum.intensity) = 0 THEN Raise("ValueError")
    ELSE LET relative_threshold == RelativeThreshold(spectrum.intensity, threshold)
         IN  IF centroid
             THEN Ok([peaks |-> AboveThreshold(spectrum.intensity, relative_threshold)])
             ELSE Ok(FindPeaks(spectrum.intensity, relative_threshold, prominence,
                               width, distance))

(***************************************************************************)
(* The scan store: load_data and the index-building loop of                *)
(* load_predefined_data (the two loops are the same code).                 *)
(***************************************************************************)
EnergyValues == {5, 10}

WithEnergy(e) == [kind |-> "activation", energy |-> e]
WithoutEnergy(k) == [kind |-> k, energy |-> NoLabel]

\* The arrays and scan window of a scan, drawn from a small catalogue.
ShapeA ==
    [mz |-> <<1, 2, 3>>, intensity |-> RSeq(<<0, 2, 0>>), lower |-> 0, upper |-> 4]
ShapeB ==
    [mz |-> <<2, 4>>, intensity |-> RSeq(<<1, 1>>), lower |-> 1, upper |-> 5]

\* Survey scans (with and without a stray precursor entry), fragment scans
\* lacking each piece of the precursor activation, and fragment scans with
\* a collision energy.
ScanHeaders ==
    {[ms_level |-> 1, precursor |-> p, shape |-> ShapeA] :
        p \in {WithoutEnergy("absent"), WithEnergy(5)}}
    \cup {[ms_level |-> 2, precursor |-> WithoutEnergy(k), shape |-> ShapeA] :
            k \in {"absent", "empty", "noActivation", "noCollisionEnergy"}}
    \cup {[ms_level |-> l, precursor |-> WithEnergy(e), shape |-> sh] :
            l \in {2}, e \in EnergyValues, sh \in {ShapeA, ShapeB}}

\* The scan at file position i (0-based 'index', start time in scan order).
MakeScan(h, i) ==
    [index |-> i, ms_level |-> h.ms_level, precursor |-> h.precursor,
     mz |-> h.shape.mz, intensity |-> h.shape.intensity,
     lower |-> h.shape.lower, upper |-> h.shape.upper,
     start_time |-> i, filter_string |-> RawFilter]

Files ==
    UNION {{[i \in 1..n |-> MakeScan(hs[i], i - 1)] : hs \in [1..n -> ScanHeaders]} :
             n \in 0..MaxScans}

\* Lines 214-215: the scan carries precursorList/precursor[0]/activation/
\* collision energy.
HasCollisionEnergy(scan) ==
    /\ scan.precursor.kind # "absent"
    /\ scan.precursor.kind # "empty"
    /\ scan.precursor.kind # "noActivation"
    /\ scan.precursor.kind # "noCollisionEnergy"

\* LoadScan without the test of the MS level (line 212-213 dropped).
LoadScanNoSkip(list, scan) ==
    IF HasCollisionEnergy(scan)
    THEN LET energy == scan.precursor.energy
             bucket == IF energy \in DOMAIN list THEN list[energy] ELSE <<>>
         IN  [e \in DOMAIN list \cup {energy} |->
                 IF e = energy THEN Append(bucket, scan.index) ELSE list[e]]
    ELSE list

\* One iteration of the loop `for scan in reader` on the index built so far.
LoadScan(list, scan) ==
    LET idx == scan.index IN
    IF scan.ms_level = 1 THEN list
    ELSE IF HasCollisionEnergy(scan)
         THEN LET energy == scan.precursor.energy
                  bucket == IF energy \in DOMAIN list THEN list[energy] ELSE <<>>
              IN  [e \in DOMAIN list \cup {energy} |->
                      IF e = energy THEN Append(bucket, idx) ELSE list[e]]
         ELSE list

EmptyIndex == [e \in {} |-> <<>>]

StoreInit ==
    /\ reader \in Files
    /\ pos = 0
    /\ scan_energy_list = EmptyIndex
    /\ pc = "loading"
    /\ scan_filter = NoLabel
    /\ spectra = <<>>
    /\ selected_scan = NoScan

load_data_step ==
    /\ pc = "loading"
    /\ pos < Len(reader)
    /\ scan_energy_list' = LoadScan(scan_energy_list, reader[pos + 1])
    /\ pos' = pos + 1
    /\ UNCHANGED <<reader, pc, scan_filter, spectra, selected_scan, args, result>>

load_data_return ==
    /\ pc = "loading"
    /\ pos = Len(reader)
    /\ pc' = "loaded"
    /\ UNCHANGED <<reader, pos, scan_energy_list, scan_filter, spectra,
                   selected_scan, args, result>>

(***************************************************************************)
(* spectrum_tab: the choice of the spectrum at the requested energy        *)
(* (lines 390-406).  The number input yields any integer between the first *)
(* and the last available energy.                                          *)
(***************************************************************************)
KnownEnergies == <<0, 5, 10, 15, 20>>

RECURSIVE FilterSeq(_, _)
FilterSeq(s, S) ==
    IF s = <<>> THEN <<>>
    ELSE IF Head(s) \in S THEN <<Head(s)>> \o FilterSeq(Tail(s), S)
         ELSE FilterSeq(Tail(s), S)

available_energies(list) == FilterSeq(KnownEnergies, DOMAIN list)

\* reader[i] for a 0-based scan index i.
GetScan(rd, i) == rd[i + 1]

\* Line 395-396: [reader[i] for i in range(bucket[0], bucket[-1] + 1)].
ExactSpectra(rd, list, e) ==
    LET first == list[e][1]
        last == list[e][Len(list[e])]
    IN  [k \in 1..(last - first + 1) |-> GetScan(rd, first + k - 1)]

\* Line 399: reader[scan_filter_list[energy]], the scans of the bucket.
BucketSpectra(rd, list, energy) ==
    [k \in 1..Len(list[energy]) |-> GetScan(rd, list[energy][k])]

Requestable(list) ==
    LET av == available_energies(list) IN av[1]..av[Len(av)]

select_exact ==
    /\ pc \in {"loaded", "rendered", "failed"}
    /\ available_energies(scan_energy_list) # <<>>
    /\ \E e \in Requestable(scan_energy_list) :
          /\ e \in DOMAIN scan_energy_list
          /\ LET r == average_spectra(ExactSpectra(reader, scan_energy_list, e),
                                      NoLabel, e)
             IN  /\ scan_filter' = e
                 /\ IF r.status = "ok"
                    THEN /\ spectra' = r.spectra
                         /\ selected_scan' = r.value
                         /\ pc' = "rendered"
                    ELSE /\ spectra' = ExactSpectra(reader, scan_energy_list, e)
                         /\ selected_scan' = NoScan
                         /\ pc' = "failed"
    /\ UNCHANGED <<reader, pos, scan_energy_list, args, result>>

\* Lines 399-406 as one outcome: the averaged spectra per available energy,
\* the interpolation to the requested energy and the assembled spectrum.
InterpolatedScan(rd, list, e) ==
    LET av == available_energies(list)
        avgs == [k \in 1..Len(av) |->
                    average_spectra(BucketSpectra(rd, list, av[k]), NoLabel, NoLabel)]
    IN  IF \E k \in 1..Len(av) : avgs[k].status # "ok"
        THEN [status |-> "ValueError", spectra |-> <<>>]
        ELSE LET specs == [k \in 1..Len(av) |-> avgs[k].value]
                 ip == interpolate_spectra(specs, <<e>>, av)
             IN  IF ip.status # "ok"
                 THEN [status |-> ip.status, spectra |-> specs]
                 ELSE IF Len(specs[1].mz) = 0
                      THEN [status |-> "ValueError", spectra |-> specs]
                      ELSE [status |-> "ok", spectra |-> specs,
                            value |->
                               [mz |-> specs[1].mz,
                                intensity |-> ip.value[e],
                                lower |-> SetMin({specs[1].mz[i] :
                                                    i \in 1..Len(specs[1].mz)}),
                                upper |-> SetMax({specs[1].mz[i] :
                                                    i \in 1..Len(specs[1].mz)})]]

select_interpolated ==
    /\ pc \in {"loaded", "rendered", "failed"}
    /\ available_energies(scan_energy_list) # <<>>
    /\ \E e \in Requestable(scan_energy_list) :
          /\ e \notin DOMAIN scan_energy_list
          /\ LET r == InterpolatedScan(reader, scan_energy_list, e)
             IN  /\ scan_filter' = e
                 /\ spectra' = r.spectra
                 /\ IF r.status = "ok"
                    THEN selected_scan' = r.value /\ pc' = "rendered"
                    ELSE selected_scan' = NoScan /\ pc' = "failed"
    /\ UNCHANGED <<reader, pos, scan_energy_list, args, result>>

\* available_energies[0] on an empty list: the render aborts.
select_no_energy ==
    /\ pc = "loaded"
    /\ available_energies(scan_energy_list) = <<>>
    /\ pc' = "failed"
    /\ UNCHANGED <<reader, pos, scan_energy_list, scan_filter, spectra,
                   selected_scan, args, result>>

StoreNext ==
    \/ load_data_step
    \/ load_data_return
    \/ select_exact
    \/ select_interpolated
    \/ select_no_energy

Init == StoreInit /\ args = NoArgs /\ result = NoResult

Next == StoreNext

Spec == Init /\ [][Next]_vars

(***************************************************************************)
(* Properties of the scan store.                                           *)
(***************************************************************************)
IndexEntries ==
    UNION {{<<e, k>> : k \in 1..Len(scan_energy_list[e])} :
             e \in DOMAIN scan_energy_list}

IsFragmentScanWithEnergy(scan) ==
    scan.ms_level >= 2 /\ scan.precursor.kind = "activation"

\* C1: after the load, every index of a bucket is a scan of the file with
\* MS level >= 2 and a collision energy equal to the bucket's key; no MS1
\* scan is indexed; every MS>=2 scan with a collision energy is indexed
\* exactly once; each bucket is in file order.
C1_EnergyIndexSound ==
    pc # "loading" =>
       /\ \A ek \in IndexEntries :
             LET i == scan_energy_list[ek[1]][ek[2]]
             IN  /\ i \in 0..(Len(reader) - 1)
                 /\ reader[i + 1].index = i
                 /\ reader[i + 1].ms_level >= 2
                 /\ reader[i + 1].ms_level # 1
                 /\ reader[i + 1].precursor.kind = "activation"
                 /\ reader[i + 1].precursor.energy = ek[1]
       /\ \A i \in 0..(Len(reader) - 1) :
             IsFragmentScanWithEnergy(reader[i + 1]) =>
                Cardinality({ek \in IndexEntries :
                               scan_energy_list[ek[1]][ek[2]] = i}) = 1
       /\ \A e \in DOMAIN scan_energy_list :
             \A k, l \in 1..Len(scan_energy_list[e]) :
                k < l => scan_energy_list[e][k] < scan_energy_list[e][l]

\* A loaded file with a bucket of two scans and, between them, a survey
\* scan that carries a collision energy.
C1_Witness ==
    /\ pc = "loaded"
    /\ \E e \in DOMAIN scan_energy_list :
          /\ Len(scan_energy_list[e]) >= 2
          /\ \E i \in 1..Len(reader) :
                /\ reader[i].ms_level = 1
                /\ reader[i].precursor.kind = "activation"
                /\ scan_energy_list[e][1] < reader[i].index
                /\ reader[i].index < scan_energy_list[e][2]

SpectraIndices == [k \in 1..Len(spectra) |-> spectra[k].index]

\* C2: at a requested energy that is a key of the index, the spectra handed
\* to the averager are exactly the scans of that energy's bucket; at any
\* other requested energy, one averaged spectrum per available energy is
\* built from exactly that energy's bucket.
C2_ExactlyTheBucket ==
    /\ (pc \in {"rendered", "failed"} /\ scan_filter \in DOMAIN scan_energy_list)
          => SpectraIndices = scan_energy_list[scan_filter]
    /\ (pc = "rendered" /\ scan_filter # NoLabel
           /\ scan_filter \notin DOMAIN scan_energy_list)
          => LET av == available_energies(scan_energy_list)
             IN  /\ Len(spectra) = Len(av)
                 /\ \A k \in 1..Len(av) :
                       spectra[k] =
                          average_spectra(
                             [m \in 1..Len(scan_energy_list[av[k]]) |->
                                 reader[scan_energy_list[av[k]][m] + 1]],
                             NoLabel, NoLabel).value

(***************************************************************************)
(* Calls of the pipeline's functions on their own: the arguments are drawn *)
(* at the start, the call computes the result.  The store is not loaded.   *)
(***************************************************************************)
StoreIdle ==
    /\ reader = <<>>
    /\ pos = 0
    /\ scan_energy_list = EmptyIndex
    /\ scan_filter = NoLabel
    /\ spectra = <<>>
    /\ selected_scan = NoScan

MzValues == {1, 2, 4}
IntensityValues == {0, 1}
Windows == {<<0, 5>>, <<1, 4>>}
\* <<bin_width, filter_string>>: the default bin width with an energy label
\* (line 397) and an explicit bin width with no label.
AverageCalls == {<<NoLabel, 5>>, <<2, NoLabel>>}

\* Strictly increasing m/z arrays with a parallel intensity array.
MzArrays == {SortedSeq(S) : S \in SUBSET MzValues}

RawSpectra ==
    UNION {{[mz |-> m, intensity |-> RSeq(f), w |-> w] :
               f \in [1..Len(m) -> IntensityValues], w \in Windows} :
             m \in MzArrays}

AsScan(sp, i) ==
    [index |-> i, ms_level |-> 2, precursor |-> WithEnergy(5),
     mz |-> sp.mz, intensity |-> sp.intensity,
     lower |-> sp.w[1], upper |-> sp.w[2],
     start_time |-> i, filter_string |-> RawFilter]

AverageInit ==
    /\ StoreIdle
    /\ pc = "call"
    /\ \E n \in 0..MaxSpectra : \E l \in [1..n -> RawSpectra] :
       \E form \in AverageCalls :
          args = [fn |-> "average_spectra",
                  spectra |-> [i \in 1..n |-> AsScan(l[i], i - 1)],
                  bin_width |-> form[1], filter_string |-> form[2]]
    /\ result = NoResult

call_average_spectra ==
    /\ pc = "call"
    /\ args.fn = "average_spectra"
    /\ LET r == average_spectra(args.spectra, args.bin_width, args.filter_string)
       IN  /\ result' = IF r.status = "ok" THEN Ok(r.value) ELSE r
           /\ args' = IF r.status = "ok"
                      THEN [args EXCEPT !.spectra = r.spectra]
                      ELSE args
    /\ pc' = "returned"
    /\ UNCHANGED storeVarsButPc

SpecAverage == AverageInit /\ [][call_average_spectra]_vars

(***************************************************************************)
(* Properties of average_spectra.                                          *)
(***************************************************************************)
AverageReturned == pc = "returned" /\ args.fn = "average_spectra"
AverageOk == AverageReturned /\ result.status = "ok"

InOwnRange(s, g) == Len(s.mz) > 0 /\ s.mz[1] <= g /\ g <= s.mz[Len(s.mz)]

\* The straight line through the two samples of s around g, evaluated at g
\* (two-point form), and 0 outside the m/z range of s.
LinearAt(s, g) ==
    IF ~InOwnRange(s, g) THEN R(0)
    ELSE IF \E j \in 1..Len(s.mz) : s.mz[j] = g
         THEN s.intensity[CHOOSE j \in 1..Len(s.mz) : s.mz[j] = g]
         ELSE LET j == CHOOSE k \in 1..(Len(s.mz) - 1) :
                           s.mz[k] < g /\ g < s.mz[k + 1]
                  w == s.mz[j + 1] - s.mz[j]
              IN  RAdd(RMul(s.intensity[j], Norm(s.mz[j + 1] - g, w)),
                       RMul(s.intensity[j + 1], Norm(g - s.mz[j], w)))

\* C5: the output intensity at each grid bin is the sum over all input
\* spectra of the spectrum's linearly interpolated intensity at the bin (0
\* outside its own m/z range) divided by the number of input spectra.
C5_MeanOverAllSpectra ==
    AverageOk =>
       /\ Len(result.value.intensity) = Len(result.value.mz)
       /\ \A b \in 1..Len(result.value.mz) :
             RMul(result.value.intensity[b], R(Len(args.spectra))) =
                RSum([k \in 1..Len(args.spectra) |->
                         LinearAt(args.spectra[k], result.value.mz[b])])

\* Two spectra, a bin where one of them lies out of range and the other is
\* nonzero, and a bin strictly between two samples of a spectrum.
C5_Witness ==
    /\ AverageOk
    /\ Len(args.spectra) >= 2
    /\ \E b \in 1..Len(result.value.mz) : \E k, m \in 1..Len(args.spectra) :
          /\ ~InOwnRange(args.spectra[k], result.value.mz[b])
          /\ LinearAt(args.spectra[m], result.value.mz[b]) # R(0)
    /\ \E b \in 1..Len(result.value.mz) : \E k \in 1..Len(args.spectra) :
          /\ InOwnRange(args.spectra[k], result.value.mz[b])
          /\ \A j \in 1..Len(args.spectra[k].mz) :
                args.spectra[k].mz[j] # result.value.mz[b]
          /\ LinearAt(args.spectra[k], result.value.mz[b]) # R(0)

SingleDefault ==
    AverageOk /\ Len(args.spectra) = 1 /\ args.bin_width = NoLabel

OnGrid(g) == \E b \in 1..Len(result.value.mz) : result.value.mz[b] = g

\* C6 as stated: average_spectra([s]) with the default bin width has every
\* m/z value of s on its grid, with s's intensity there.
C6_EveryMzOnGrid ==
    SingleDefault =>
       \A i \in 1..Len(args.spectra[1].mz) :
          \E b \in 1..Len(result.value.mz) :
             /\ result.value.mz[b] = args.spectra[1].mz[i]
             /\ result.value.intensity[b] = args.spectra[1].intensity[i]

MinGap(mz) == SetMin({mz[i + 1] - mz[i] : i \in 1..(Len(mz) - 1)})

\* C6 as amended: the grid runs from the scan window's lower limit in steps
\* of the minimum m/z gap of s and stops below the upper limit; wherever a
\* grid point equals an m/z value of s the output intensity is s's
\* intensity at that m/z; an m/z value of s is a grid point exactly when it
\* lies in [lower, upper) a whole number of steps above the lower limit.
C6_IdentityOnSharedPoints ==
    SingleDefault =>
       LET s == args.spectra[1]
           step == MinGap(s.mz)
       IN  /\ \A b \in 1..Len(result.value.mz) : \A i \in 1..Len(s.mz) :
                 result.value.mz[b] = s.mz[i]
                    => result.value.intensity[b] = s.intensity[i]
           /\ \A i \in 1..Len(s.mz) :
                 OnGrid(s.mz[i]) <=>
                    /\ s.lower <= s.mz[i] /\ s.mz[i] < s.upper
                    /\ (s.mz[i] - s.lower) % step = 0

\* One m/z value of s with nonzero intensity on the grid, another one off it.
C6_Witness ==
    /\ SingleDefault
    /\ Len(result.value.mz) >= 2
    /\ \E i, j \in 1..Len(args.spectra[1].mz) :
          /\ OnGrid(args.spectra[1].mz[i])
          /\ args.spectra[1].intensity[i] # R(0)
          /\ ~OnGrid(args.spectra[1].mz[j])

\* C7: an empty sequence of spectra is rejected with an error and yields no
\* result; the arguments are left as they were.
C7_EmptyListRejected ==
    (AverageReturned /\ Len(args.spectra) = 0) =>
       /\ result.status = "IndexError"
       /\ DOMAIN result = {"status"}

C7_Witness == AverageReturned /\ Len(args.spectra) = 0

(***************************************************************************)
(* Calls of interpolate_spectra: aligned intensity arrays, one more or one *)
(* fewer than the known energies included.                                 *)
(***************************************************************************)
MaxBins == 2

EnergyLists == {KnownEnergies, <<0, 10, 20>>, <<5, 10>>, <<10>>}
TargetLists ==
    {<<t>> : t \in {0, 5, 7, 10, 25}} \cup {<<7, 25>>, <<25, 7>>, <<5, 10>>}
LevelValues == {0, 2}

InterpolateInit ==
    /\ StoreIdle
    /\ pc = "call"
    /\ \E energies \in EnergyLists, target_energies \in TargetLists :
       \E n \in {Len(energies) - 1, Len(energies)}, len \in 0..MaxBins :
       \E a \in [1..n -> [1..len -> LevelValues]] :
          args = [fn |-> "interpolate_spectra",
                  spectra |-> [k \in 1..n |-> [intensity |-> RSeq(a[k])]],
                  target_energies |-> target_energies,
                  energies |-> energies]
    /\ result = NoResult

call_interpolate_spectra ==
    /\ pc = "call"
    /\ args.fn = "interpolate_spectra"
    /\ result' = interpolate_spectra(args.spectra, args.target_energies,
                                     args.energies)
    /\ pc' = "returned"
    /\ UNCHANGED <<storeVarsButPc, args>>

SpecInterpolate == InterpolateInit /\ [][call_interpolate_spectra]_vars

(***************************************************************************)
(* Properties of interpolate_spectra.                                      *)
(***************************************************************************)
InterpolateReturned == pc = "returned" /\ args.fn = "interpolate_spectra"

EnergySet == {args.energies[k] : k \in 1..Len(args.energies)}

StrictlyOutside(t) == t < SetMin(EnergySet) \/ t > SetMax(EnergySet)

\* C3: a call in which some requested target energy lies strictly outside
\* [min(known), max(known)] fails and returns no mapping.
C3_OutOfRangeFails ==
    (InterpolateReturned
       /\ \E k \in 1..Len(args.target_energies) :
             StrictlyOutside(args.target_energies[k]))
       => result.status # "ok"

\* C4: a target equal to the k-th known energy gets exactly the intensity
\* array of the k-th input spectrum (same values, same length), and a call
\* that asks for one known energy with one spectrum per known energy
\* returns.
C4_ExactAtKnownEnergy ==
    InterpolateReturned =>
       \A k \in 1..Len(args.energies) :
          /\ (Len(args.spectra) = Len(args.energies)
                 /\ args.target_energies = <<args.energies[k]>>)
                => result.status = "ok"
          /\ (result.status = "ok" /\ k <= Len(args.spectra)
                 /\ args.energies[k] \in DOMAIN result.value)
                => result.value[args.energies[k]] = args.spectra[k].intensity

\* A target at an inner known energy whose spectrum differs from both of
\* its neighbours at every m/z index.
C4_Witness ==
    /\ InterpolateReturned
    /\ result.status = "ok"
    /\ \E k \in 2..(Len(args.energies) - 1) :
          /\ args.target_energies = <<args.energies[k]>>
          /\ Len(args.spectra) = Len(args.energies)
          /\ Len(args.spectra[k].intensity) >= 2
          /\ args.spectra[k].intensity[1] # args.spectra[k].intensity[2]
          /\ \A i \in 1..Len(args.spectra[k].intensity) :
                /\ args.spectra[k - 1].intensity[i] # args.spectra[k].intensity[i]
                /\ args.spectra[k + 1].intensity[i] # args.spectra[k].intensity[i]

(***************************************************************************)
(* Calls of peak_detection.                                                *)
(***************************************************************************)
MaxSamples == 5

SampleValues == {0, 1, 2, 10}
Thresholds == {0, 5, 50}

\* <<distance, prominence, width>>: the defaults of line 14 and a lenient
\* setting.
DefaultDistance == 4
DefaultWidth == 2
DefaultProminence == <<4, 5>>
ProfileSettings ==
    {<<DefaultDistance, DefaultProminence, R(DefaultWidth)>>, <<1, <<1, 10>>, R(1)>>}

PeaksInit ==
    /\ StoreIdle
    /\ pc = "call"
    /\ \E len \in 0..MaxSamples : \E x \in [1..len -> SampleValues] :
       \E threshold \in Thresholds, centroid \in BOOLEAN, ps \in ProfileSettings :
          args = [fn |-> "peak_detection",
                  spectrum |-> [mz |-> [i \in 1..len |-> i], intensity |-> RSeq(x)],
                  threshold |-> threshold, distance |-> ps[1],
                  prominence |-> ps[2], width |-> ps[3], centroid |-> centroid]
    /\ result = NoResult

call_peak_detection ==
    /\ pc = "call"
    /\ args.fn = "peak_detection"
    /\ result' = peak_detection(args.spectrum, args.threshold, args.distance,
                                args.prominence, args.width, args.centroid)
    /\ pc' = "returned"
    /\ UNCHANGED <<storeVarsButPc, args>>

SpecPeaks == PeaksInit /\ [][call_peak_detection]_vars

(***************************************************************************)
(* Properties of peak_detection.  The samples here are whole numbers       *)
(* <<n, 1>>.                                                               *)
(***************************************************************************)
PeaksReturned == pc = "returned" /\ args.fn = "peak_detection"

Samples == [i \in 1..Len(args.spectrum.intensity) |-> args.spectrum.intensity[i][1]]

MaxSample == SetMax({Samples[i] : i \in 1..Len(Samples)})

StrictlyIncreasing(s) == \A k, l \in 1..Len(s) : k < l => s[k] < s[l]

\* C8: in centroid mode the result is exactly the indices whose intensity is
\* strictly above threshold/100 * max(intensity), in increasing order;
\* [1,10,2,10,1] at 50% gives 1 and 3.
C8_CentroidIsStrictThreshold ==
    (PeaksReturned /\ args.centroid /\ Len(Samples) > 0) =>
       /\ result.status = "ok"
       /\ StrictlyIncreasing(result.value.peaks)
       /\ {result.value.peaks[k] : k \in 1..Len(result.value.peaks)} =
             {i \in 0..(Len(Samples) - 1) :
                 100 * Samples[i + 1] > args.threshold * MaxSample}
       /\ (Samples = <<1, 10, 2, 10, 1>> /\ args.threshold = 50)
             => result.value.peaks = <<1, 3>>

C8_Witness ==
    /\ PeaksReturned
    /\ args.centroid
    /\ Samples = <<1, 10, 2, 10, 1>>
    /\ args.threshold = 50
    /\ result.status = "ok"

\* C9: an empty or all-zero intensity array gives an empty peak set and no
\* error, in both modes and at every threshold.
C9_EmptyOrZeroGivesNoPeaks ==
    (PeaksReturned /\ \A i \in 1..Len(Samples) : Samples[i] = 0) =>
       /\ result.status = "ok"
       /\ result.value.peaks = <<>>

\* C10 as stated: at threshold 0 centroid mode returns every index of the
\* spectrum, and in profile mode the height floor rejects no sample.
C10_ZeroThresholdReturnsAll ==
    (PeaksReturned /\ args.threshold = 0 /\ Len(Samples) > 0) =>
       /\ result.status = "ok"
       /\ args.centroid => result.value.peaks = [k \in 1..Len(Samples) |-> k - 1]
       /\ ~args.centroid =>
             result.value = FindPeaks(args.spectrum.intensity, R(-1),
                                      args.prominence, args.width, args.distance)

\* C10 as amended: at threshold 0 centroid mode returns exactly the indices
\* of the samples with intensity strictly above 0 (a sample of intensity 0
\* is not returned); in profile mode the height floor rejects nothing: the
\* result is the one found with no floor at all.
C10_ZeroThresholdReturnsPositive ==
    (PeaksReturned /\ args.threshold = 0 /\ Len(Samples) > 0) =>
       /\ result.status = "ok"
       /\ args.centroid =>
             /\ StrictlyIncreasing(result.value.peaks)
             /\ {result.value.peaks[k] : k \in 1..Len(result.value.peaks)} =
                   {i \in 0..(Len(Samples) - 1) : Samples[i + 1] > 0}
       /\ ~args.centroid =>
             result.value = FindPeaks(args.spectrum.intensity, R(-1),
                                      args.prominence, args.width, args.distance)

\* Centroid mode at threshold 0 on an array with a zero and a nonzero sample.
C10_Witness ==
    /\ PeaksReturned
    /\ args.threshold = 0
    /\ args.centroid
    /\ result.status = "ok"
    /\ \E i, j \in 1..Len(Samples) : Samples[i] = 0 /\ Samples[j] > 0


(***************************************************************************)
(* return_centroid(spectrum, peaks, properties).  int() truncates the      *)
(* interpolated positions; the division is numpy's, which yields nan for   *)
(* 0/0 (and inf for x/0) with a warning, not an exception.                 *)
(***************************************************************************)
NaN == <<0, 0>>
Inf == <<1, 0>>

\* int(x) for x >= 0.
Trunc(r) == r[1] \div r[2]

NpDivide(num, den) ==
    IF den = R(0) THEN (IF num = R(0) THEN NaN ELSE Inf) ELSE RDiv(num, den)

\* PeakRange without the right bound: range(left_ip, right_ip).
PeakRangeOpen(left_ip, right_ip) == left_ip..(right_ip - 1)

\* range(left_ip, right_ip + 1) as 0-based indices.
PeakRange(left_ip, right_ip) == left_ip..right_ip

WeightedSum(spectrum, range) ==
    RSum([k \in 1..Len(SortedSeq(range)) |->
             LET j == SortedSeq(range)[k]
             IN  RMul(R(At(spectrum.mz, j)), At(spectrum.intensity, j))])

IntensitySum(spectrum, range) ==
    RSum([k \in 1..Len(SortedSeq(range)) |->
             At(spectrum.intensity, SortedSeq(range)[k])])

Centroids(spectrum, peaks, properties) ==
    [i \in 1..Len(peaks) |->
        LET peak_range == PeakRange(Trunc(properties.left_ips[i]),
                                    Trunc(properties.right_ips[i]))
        IN  NpDivide(WeightedSum(spectrum, peak_range),
                     IntensitySum(spectrum, peak_range))]

IndexOutOfBounds(spectrum, peaks, properties) ==
    \E i \in 1..Len(peaks) :
       \E j \in PeakRange(Trunc(properties.left_ips[i]),
                          Trunc(properties.right_ips[i])) :
          j >= Len(spectrum.mz) \/ j >= Len(spectrum.intensity)

\* return_centroid with a division that raises on a zero intensity sum.
ReturnCentroidRaising(spectrum, peaks, properties) ==
    IF Len(properties.left_ips) < Len(peaks)
          \/ Len(properties.right_ips) < Len(peaks)
          \/ IndexOutOfBounds(spectrum, peaks, properties)
    THEN Raise("IndexError")
    ELSE IF \E i \in 1..Len(peaks) :
               Centroids(spectrum, peaks, properties)[i] \in {NaN, Inf}
         THEN Raise("ZeroDivisionError")
         ELSE Ok(Centroids(spectrum, peaks, properties))

return_centroid(spectrum, peaks, properties) ==
    IF Len(properties.left_ips) < Len(peaks)
          \/ Len(properties.right_ips) < Len(peaks)
          \/ IndexOutOfBounds(spectrum, peaks, properties)
    THEN Raise("IndexError")
    ELSE Ok(Centroids(spectrum, peaks, properties))

MaxPoints == 3

PointValues == {0, 1, 10}

\* Positions in half samples, as the half-prominence crossings are.
HalfSteps(len) == {Norm(h, 2) : h \in 0..(2 * (len - 1))}

PeakBounds(len) ==
    {b \in HalfSteps(len) \X HalfSteps(len) : RLe(b[1], b[2])}

MzGrids(len) == {[i \in 1..len |-> i], [i \in 1..len |-> i * i + 1]}

CentroidInit ==
    /\ StoreIdle
    /\ pc = "call"
    /\ \E len \in 1..MaxPoints : \E x \in [1..len -> PointValues] :
       \E mz \in MzGrids(len), n \in 0..2 : \E b \in [1..n -> PeakBounds(len)] :
          args = [fn |-> "return_centroid",
                  spectrum |-> [mz |-> mz, intensity |-> RSeq(x)],
                  peaks |-> [i \in 1..n |->
                                (Trunc(b[i][1]) + Trunc(b[i][2]) + 1) \div 2],
                  properties |-> [left_ips |-> [i \in 1..n |-> b[i][1]],
                                  right_ips |-> [i \in 1..n |-> b[i][2]]]]
    /\ result = NoResult

call_return_centroid ==
    /\ pc = "call"
    /\ args.fn = "return_centroid"
    /\ result' = return_centroid(args.spectrum, args.peaks, args.properties)
    /\ pc' = "returned"
    /\ UNCHANGED <<storeVarsButPc, args>>

SpecCentroid == CentroidInit /\ [][call_return_centroid]_vars

(***************************************************************************)
(* Properties of return_centroid.  The samples here are whole numbers.     *)
(***************************************************************************)
CentroidReturned == pc = "returned" /\ args.fn = "return_centroid"

LeftBound(i) == Trunc(args.properties.left_ips[i])
RightBound(i) == Trunc(args.properties.right_ips[i])

RECURSIVE SumOver(_, _, _)
SumOver(f, lo, hi) == IF lo > hi THEN 0 ELSE f[lo + 1] + SumOver(f, lo + 1, hi)

IntensityWhole == [j \in 1..Len(args.spectrum.mz) |-> args.spectrum.intensity[j][1]]
ProductWhole ==
    [j \in 1..Len(args.spectrum.mz) |->
        args.spectrum.mz[j] * args.spectrum.intensity[j][1]]

\* C11: one centroid per peak, in order; each is sum(mz*intensity) over the
\* indices from the left bound to the right bound, both included, divided
\* by sum(intensity) over them; m/z [1,2,3], intensity [0,10,0], bounds
\* [0,2] give 2.
C11_CentroidIsWeightedMean ==
    CentroidReturned =>
       /\ result.status = "ok"
       /\ Len(result.value) = Len(args.peaks)
       /\ \A i \in 1..Len(args.peaks) :
             LET den == SumOver(IntensityWhole, LeftBound(i), RightBound(i))
                 num == SumOver(ProductWhole, LeftBound(i), RightBound(i))
             IN  den # 0 =>
                    /\ result.value[i][2] # 0
                    /\ result.value[i][1] * den = num * result.value[i][2]
       /\ (args.spectrum.mz = <<1, 2, 3>>
             /\ args.spectrum.intensity = RSeq(<<0, 10, 0>>)
             /\ Len(args.peaks) >= 1 /\ LeftBound(1) = 0 /\ RightBound(1) = 2)
             => result.value[1] = R(2)

\* The triangular peak of the example, and a second peak in the same call
\* whose right bound sample carries intensity.
C11_Witness ==
    /\ CentroidReturned
    /\ args.spectrum.mz = <<1, 2, 3>>
    /\ args.spectrum.intensity = RSeq(<<0, 10, 0>>)
    /\ Len(args.peaks) = 2
    /\ args.properties.left_ips[1] = R(0) /\ args.properties.right_ips[1] = R(2)
    /\ args.properties.left_ips[2] = R(0) /\ args.properties.right_ips[2] = R(1)
    /\ result.status = "ok"
    /\ result.value = <<R(2), R(2)>>

\* C12: a peak whose bounded intensities sum to zero gets the undefined
\* value and the call returns; the other peaks of the call get their
\* centroids.
C12_ZeroSumGivesNaN ==
    CentroidReturned =>
       /\ result.status = "ok"
       /\ \A i \in 1..Len(args.peaks) :
             LET den == SumOver(IntensityWhole, LeftBound(i), RightBound(i))
                 num == SumOver(ProductWhole, LeftBound(i), RightBound(i))
             IN  /\ den = 0 => result.value[i] = NaN
                 /\ den # 0 => /\ result.value[i][2] # 0
                               /\ result.value[i][1] * den = num * result.value[i][2]

\* Two peaks in one call: the first over samples of intensity zero, the
\* second over samples with intensity.
C12_Witness ==
    /\ CentroidReturned
    /\ result.status = "ok"
    /\ Len(args.peaks) = 2
    /\ SumOver(IntensityWhole, LeftBound(1), RightBound(1)) = 0
    /\ SumOver(IntensityWhole, LeftBound(2), RightBound(2)) # 0
    /\ result.value[1] = NaN
    /\ result.value[2] # NaN

(***************************************************************************)
(* get_fragments.  A Python string is a sequence of one-character strings. *)
(* parser.parse and mass.fast_mass2 are pyteomics': parse splits a modX    *)
(* sequence into residue labels (lower-case modification prefix plus one   *)
(* capital letter); fast_mass2 sums the label masses, the terminal water   *)
(* and the ion-type offset and divides by a non-zero charge.  Masses are   *)
(* nominal (whole dalton) values.                                          *)
(***************************************************************************)
Upper ==
    {"A", "B", "C", "D", "E", "F", "G", "H", "I", "J", "K", "L", "M",
     "N", "O", "P", "Q", "R", "S", "T", "U", "V", "W", "X", "Y", "Z"}

Digits == <<"0", "1", "2", "3", "4", "5", "6", "7", "8", "9">>

\* str(n)
RECURSIVE Str(_)
Str(n) ==
    IF n < 0 THEN <<"-">> \o Str(-n)
    ELSE IF n < 10 THEN <<Digits[n + 1]>>
    ELSE Str(n \div 10) \o <<Digits[(n % 10) + 1]>>

IsNumeral(s) ==
    /\ s # <<>>
    /\ \A i \in 1..Len(s) : \E d \in 1..10 : Digits[d] = s[i]

\* int(s) for a numeral s.
RECURSIVE IntOf(_)
IntOf(s) ==
    IF s = <<>> THEN 0
    ELSE 10 * IntOf(SubSeq(s, 1, Len(s) - 1))
            + (CHOOSE d \in 0..9 : Digits[d + 1] = s[Len(s)])

\* re.findall(r'[^A-Z-]*[A-Z]', body)
RECURSIVE ModXGroups(_)
ModXGroups(s) ==
    IF s = <<>> THEN <<>>
    ELSE LET k == CHOOSE i \in 1..Len(s) :
                     /\ s[i] \in Upper
                     /\ \A j \in 1..(i - 1) : s[j] \notin Upper
         IN  <<SubSeq(s, 1, k)>> \o ModXGroups(SubSeq(s, k + 1, Len(s)))

\* parser.parse(sequence) for a sequence without terminal groups.
parse(sequence) ==
    IF sequence = <<>> \/ sequence[Len(sequence)] \notin Upper
    THEN Raise("PyteomicsError")
    ELSE Ok(ModXGroups(sequence))

\* ''.join(labels)
RECURSIVE Join(_)
Join(labels) == IF labels = <<>> THEN <<>> ELSE Head(labels) \o Join(Tail(labels))

\* labels[:pos] for pos >= 0
FirstLabels(labels, pos_) ==
    SubSeq(labels, 1, IF pos_ < Len(labels) THEN pos_ ELSE Len(labels))

\* labels[-pos:] for pos >= 0; -0 is 0, so position 0 takes every label.
LastLabels(labels, pos_) ==
    IF pos_ = 0 \/ pos_ >= Len(labels) THEN labels
    ELSE SubSeq(labels, Len(labels) - pos_ + 1, Len(labels))

aa_mass ==
    [x \in {<<"G">>, <<"A">>, <<"S">>, <<"P">>, <<"V">>, <<"T">>, <<"C">>,
            <<"L">>, <<"I">>, <<"N">>, <<"D">>, <<"Q">>, <<"K">>, <<"E">>,
            <<"M">>, <<"H">>, <<"F">>, <<"R">>, <<"Y">>, <<"W">>,
            <<"p">>, <<"o", "x">>, <<"d">>, <<"a", "m">>} |->
        CASE x = <<"G">> -> 57   [] x = <<"A">> -> 71   [] x = <<"S">> -> 87
          [] x = <<"P">> -> 97   [] x = <<"V">> -> 99   [] x = <<"T">> -> 101
          [] x = <<"C">> -> 103  [] x = <<"L">> -> 113  [] x = <<"I">> -> 113
          [] x = <<"N">> -> 114  [] x = <<"D">> -> 115  [] x = <<"Q">> -> 128
          [] x = <<"K">> -> 128  [] x = <<"E">> -> 129  [] x = <<"M">> -> 131
          [] x = <<"H">> -> 137  [] x = <<"F">> -> 147  [] x = <<"R">> -> 156
          [] x = <<"Y">> -> 163  [] x = <<"W">> -> 186
          [] x = <<"p">> -> 80   [] x = <<"o", "x">> -> 16
          [] x = <<"d">> -> 1    [] x = <<"a", "m">> -> -1]

\* Mass offsets of the ion types relative to the neutral peptide.
std_ion_comp ==
    [t \in {"a", "b", "c", "x", "y", "z"} |->
        CASE t = "a" -> -46 [] t = "b" -> -18 [] t = "c" -> -1
          [] t = "x" -> 26  [] t = "y" -> 0   [] t = "z" -> -17]

WaterMass == 18
ProtonMass == 1

LabelKnown(label) ==
    /\ <<label[Len(label)]>> \in DOMAIN aa_mass
    /\ Len(label) > 1 => SubSeq(label, 1, Len(label) - 1) \in DOMAIN aa_mass

LabelMass(label) ==
    aa_mass[<<label[Len(label)]>>]
       + (IF Len(label) > 1 THEN aa_mass[SubSeq(label, 1, Len(label) - 1)] ELSE 0)

RECURSIVE LabelsMass(_)
LabelsMass(labels) ==
    IF labels = <<>> THEN 0 ELSE LabelMass(Head(labels)) + LabelsMass(Tail(labels))

fast_mass2(seq, ion_type, charge) ==
    IF parse(seq).status # "ok" THEN Raise("PyteomicsError")
    ELSE IF \E i \in 1..Len(parse(seq).value) : ~LabelKnown(parse(seq).value[i])
    THEN Raise("PyteomicsError")
    ELSE IF ion_type \notin DOMAIN std_ion_comp THEN Raise("PyteomicsError")
    ELSE LET m == LabelsMass(parse(seq).value) + WaterMass + std_ion_comp[ion_type]
         IN  IF charge # 0
             THEN Ok(RDiv(R(m + ProtonMass * charge), R(charge)))
             ELSE Ok(R(m))

\* The label of a C-terminal ion numbered by the requested position.
IonLabelByPosition(ion, ion_type, pos_, length) ==
    IF ion_type \in {"a", "b", "c", "x", "y", "z"} THEN <<ion_type>> \o Str(pos_)
    ELSE ion

IonLabel(ion, ion_type, pos_, length) ==
    IF ion_type \in {"a", "b", "c"} THEN <<ion_type>> \o Str(pos_)
    ELSE IF ion_type \in {"y", "z", "x"} THEN <<ion_type>> \o Str(length - pos_ + 1)
    ELSE ion

\* One pass of the loop body for a request ion (a non-empty string).
Fragment(_sequence, ion, selected_charge_state) ==
    IF ~IsNumeral(Tail(ion)) THEN Raise("ValueError")
    ELSE LET ion_type == ion[1]
             pos_ == IntOf(Tail(ion))
             seq == IF ion_type \in {"a", "b", "c"}
                    THEN Join(FirstLabels(_sequence, pos_))
                    ELSE Join(LastLabels(_sequence, pos_))
             _mass == fast_mass2(seq, ion_type, selected_charge_state)
         IN  IF _mass.status # "ok" THEN _mass
             ELSE Ok([seq |-> seq,
                      ion |-> IonLabel(ion, ion_type, pos_, Len(_sequence)),
                      mz |-> _mass.value,
                      type |-> ion_type])

get_fragments(sequence, fragment_ions, selected_charge_state) ==
    IF parse(sequence).status # "ok" THEN Raise("PyteomicsError")
    ELSE LET _sequence == parse(sequence).value
             each == [i \in 1..Len(fragment_ions) |->
                         Fragment(_sequence, fragment_ions[i], selected_charge_state)]
             failed == {i \in 1..Len(fragment_ions) : each[i].status # "ok"}
         IN  IF failed # {} THEN each[SetMin(failed)]
             ELSE Ok([i \in 1..Len(fragment_ions) |-> each[i].value])

MaxResidues == 4

IonTypes == {"a", "b", "c", "x", "y", "z"}

Charges == {-1, 0, 1, 2}

\* The keys of peptide_options, which the page passes as the sequence.
PeptideNames ==
    {<<"M", "R", "F", "A">>,
     <<"G", "R", "G", "D", "S">>,
     <<"S", "D", "G", "R", "G">>,
     <<"B", "r", "a", "d", "y", "k", "i", "n", "i", "n">>,
     <<"S", "u", "b", "s", "t", "a", "n", "c", "e", "_", "P">>}

OxidisedMRFA == <<"o", "x", "M", "R", "F", "A">>

FragmentsInit ==
    /\ StoreIdle
    /\ pc = "call"
    /\ \E sequence \in PeptideNames \cup {OxidisedMRFA}
                          \cup UNION {[1..n -> {"A", "R"}] : n \in 0..MaxResidues} :
       \E n \in 0..2 : \E t \in [1..n -> IonTypes] :
       \E position \in [1..n -> 1..(MaxResidues + 1)], charge \in Charges :
          args = [fn |-> "get_fragments",
                  sequence |-> sequence,
                  fragment_ions |-> [i \in 1..n |-> <<t[i]>> \o Str(position[i])],
                  selected_charge_state |-> charge]
    /\ result = NoResult

call_get_fragments ==
    /\ pc = "call"
    /\ args.fn = "get_fragments"
    /\ result' = get_fragments(args.sequence, args.fragment_ions,
                               args.selected_charge_state)
    /\ pc' = "returned"
    /\ UNCHANGED <<storeVarsButPc, args>>

SpecFragments == FragmentsInit /\ [][call_get_fragments]_vars

(***************************************************************************)
(* Properties of get_fragments.                                            *)
(***************************************************************************)
FragmentsReturned == pc = "returned" /\ args.fn = "get_fragments"

Residues == parse(args.sequence).value
Requested(i) == IntOf(Tail(args.fragment_ions[i]))
RequestedType(i) == args.fragment_ions[i][1]
PlainPeptide ==
    /\ parse(args.sequence).status = "ok"
    /\ \A k \in 1..Len(Residues) : LabelKnown(Residues[k])
PositionsWithin ==
    \A i \in 1..Len(args.fragment_ions) :
       1 <= Requested(i) /\ Requested(i) <= Len(Residues)

\* C13: for a sequence of L residues and requests with 1 <= position <= L
\* the call returns one fragment per request, in request order; types a, b,
\* c get the first `position` residues and the label type+position; types
\* x, y, z get the last `position` residues and the label
\* type+(L - position + 1).
C13_FragmentPerRequest ==
    (FragmentsReturned /\ PlainPeptide /\ PositionsWithin) =>
       /\ result.status = "ok"
       /\ Len(result.value) = Len(args.fragment_ions)
       /\ \A i \in 1..Len(args.fragment_ions) :
             LET f == result.value[i]
                 L == Len(Residues)
                 position == Requested(i)
             IN  /\ f.type = RequestedType(i)
                 /\ f.type \in {"a", "b", "c"} =>
                       /\ f.seq = Join(SubSeq(Residues, 1, position))
                       /\ f.ion = <<f.type>> \o Str(position)
                 /\ f.type \in {"x", "y", "z"} =>
                       /\ f.seq = Join(SubSeq(Residues, L - position + 1, L))
                       /\ f.ion = <<f.type>> \o Str(L - position + 1)

\* MRFA asked for b2 and then y1: MR labelled b2, A labelled y4.
C13_Witness ==
    /\ FragmentsReturned
    /\ args.sequence = <<"M", "R", "F", "A">>
    /\ args.fragment_ions = <<<<"b", "2">>, <<"y", "1">>>>
    /\ result.status = "ok"
    /\ result.value[1].seq = <<"M", "R">> /\ result.value[1].ion = <<"b", "2">>
    /\ result.value[2].seq = <<"A">> /\ result.value[2].ion = <<"y", "4">>

ResidueCount(seq) == Len(parse(seq).value)

\* C14: for MRFA, type b at position 2 gives MR labelled b2 and type y at
\* position 2 gives FA labelled y2; the number in every fragment's label is
\* the number of residues of its subsequence, for N-terminal and C-terminal
\* types alike.
C14_LabelCountsResidues ==
    (FragmentsReturned /\ PlainPeptide /\ PositionsWithin
        /\ result.status = "ok") =>
       /\ \A i \in 1..Len(result.value) :
             result.value[i].ion
                = <<result.value[i].type>> \o Str(ResidueCount(result.value[i].seq))
       /\ args.sequence = <<"M", "R", "F", "A">> =>
             \A i \in 1..Len(result.value) :
                /\ args.fragment_ions[i] = <<"b", "2">> =>
                      /\ result.value[i].seq = <<"M", "R">>
                      /\ result.value[i].ion = <<"b", "2">>
                /\ args.fragment_ions[i] = <<"y", "2">> =>
                      /\ result.value[i].seq = <<"F", "A">>
                      /\ result.value[i].ion = <<"y", "2">>

\* C15: the call fails with InvalidArgument, returning no fragment list,
\* whenever a requested position exceeds the sequence length or the charge
\* is <= 0; no returned fragment has fewer residues than its requested
\* position.
C15_InvalidArgumentRejected ==
    (FragmentsReturned /\ PlainPeptide) =>
       /\ ((\E i \in 1..Len(args.fragment_ions) : Requested(i) > Len(Residues))
              \/ args.selected_charge_state <= 0)
             => result.status = "InvalidArgument"
       /\ result.status = "ok" =>
             \A i \in 1..Len(result.value) :
                ResidueCount(result.value[i].seq) >= Requested(i)

(***************************************************************************)
(* Frame of the averager on its argument list.                             *)
(***************************************************************************)
\* C16: the scans passed to an operation are equal after the call to what
\* they were before it, nested scan-list metadata (filter string, window
\* bounds) and arrays included; average_spectra writes its label only into
\* the spectrum it returns.
C16_ScansUnmodified ==
    [][args.fn = "average_spectra" => args'.spectra = args.spectra]_vars

(***************************************************************************)
(* The interpolation path of the page.                                     *)
(***************************************************************************)
OnInterpolationPath ==
    /\ pc \in {"rendered", "failed"}
    /\ scan_filter # NoLabel
    /\ scan_filter \notin DOMAIN scan_energy_list
    /\ spectra # <<>>

\* C17: on the interpolation path the averaged spectra handed to
\* interpolate_spectra all have one m/z grid (same start, bin width and
\* length), whatever the windows and m/z gaps of the energies' scans; the
\* m/z array attached to the interpolated intensities, the first averaged
\* spectrum's, is then every contributor's grid and as long as the
\* intensity array.
C17_AveragesShareGrid ==
    OnInterpolationPath =>
       /\ \A k \in 1..Len(spectra) : spectra[k].mz = spectra[1].mz
       /\ pc = "rendered" =>
             /\ selected_scan.mz = spectra[1].mz
             /\ Len(selected_scan.mz) = Len(selected_scan.intensity)

(***************************************************************************)
(* plot_spectrum(selected_scan, labels_on, label_ions, selected_peptide)   *)
(* and the chart call.  The figure is the record of what was drawn on it;  *)
(* a function that ends without a return statement hands back None.        *)
(***************************************************************************)
NoPlot == [none |-> TRUE]
NoIons == <<>>

PlotThreshold == 5

fragment_ions ==
    [k \in 1..24 |->
        <<<<"a", "b", "c", "x", "y", "z">>[((k - 1) \div 4) + 1]>>
           \o Str(((k - 1) % 4) + 1)]

\* s.rstrip('+')
RECURSIVE RStripPlus(_)
RStripPlus(s) ==
    IF s # <<>> /\ s[Len(s)] = "+" THEN RStripPlus(SubSeq(s, 1, Len(s) - 1)) ELSE s

\* "%.2f" % x as a count of hundredths, or the text for an undefined value.
Format2(x) ==
    IF x = NaN THEN "nan"
    ELSE IF x = Inf THEN "inf"
    ELSE LET q == (100 * x[1]) \div x[2]
             rem == (100 * x[1]) % x[2]
         IN  IF 2 * rem > x[2] THEN q + 1
             ELSE IF 2 * rem = x[2] THEN q + (q % 2)
             ELSE q

\* np.argmin(np.abs(mz_array - m)), 0-based.
NearestIndex(mz_array, m) ==
    LET dist(i) == IF RLe(m, R(At(mz_array, i)))
                   THEN RSub(R(At(mz_array, i)), m)
                   ELSE RSub(m, R(At(mz_array, i)))
    IN  SetMin({i \in 0..(Len(mz_array) - 1) :
                   \A j \in 0..(Len(mz_array) - 1) : RLe(dist(i), dist(j))})

\* The try block of lines 461-478: the ion labels added to the figure, or
\* none when the charge-state parse or get_fragments raised.
IonAnnotation(selected_scan_, selected_peptide, selected_charge_state) ==
    IF ~IsNumeral(RStripPlus(selected_charge_state)) THEN NoIons
    ELSE LET cleaned_charge_state == IntOf(RStripPlus(selected_charge_state))
             fragments == get_fragments(selected_peptide, fragment_ions,
                                        cleaned_charge_state)
         IN  IF fragments.status # "ok" THEN NoIons
             ELSE [k \in 1..Len(fragments.value) |->
                      [x |-> fragments.value[k].mz,
                       y |-> RMul(At(selected_scan_.intensity,
                                     NearestIndex(selected_scan_.mz,
                                                  fragments.value[k].mz)),
                                  <<21, 20>>),
                       ion_type |-> fragments.value[k].ion]]

Figure(selected_scan_, labels_on, _peaks, _peak_centroids, ions) ==
    [x_range |-> <<selected_scan_.lower, selected_scan_.upper>>,
     line |-> [x |-> selected_scan_.mz, y |-> selected_scan_.intensity],
     peaks |-> [x |-> [k \in 1..Len(_peaks) |-> At(selected_scan_.mz, _peaks[k])],
                y |-> [k \in 1..Len(_peaks) |-> At(selected_scan_.intensity, _peaks[k])],
                cent |-> [k \in 1..Len(_peaks) |-> Format2(_peak_centroids[k])]],
     labels |-> labels_on,
     ions |-> ions]

plot_spectrum(selected_scan_, labels_on, label_ions, selected_peptide, selected_charge_state) ==
    LET pd == peak_detection(selected_scan_, PlotThreshold, DefaultDistance,
                             DefaultProminence, R(DefaultWidth), FALSE)
    IN  IF pd.status # "ok" THEN pd
        ELSE LET rc == return_centroid(selected_scan_, pd.value.peaks, pd.value)
             IN  IF rc.status # "ok" THEN rc
                 ELSE IF label_ions /\ selected_peptide # <<>>
                      THEN Ok(Figure(selected_scan_, labels_on, pd.value.peaks, rc.value,
                                     IonAnnotation(selected_scan_, selected_peptide,
                                                   selected_charge_state)))
                      ELSE Ok(NoPlot)

ProfileValues == {0, 10}

\* The charge states of peptide_options, and a text without a number.
ChargeStates == {<<"1", "+">>, <<"2", "+">>, <<"3", "+">>, <<"+">>}

PlotInit ==
    /\ StoreIdle
    /\ pc = "call"
    /\ \E len \in 1..MaxSamples : \E x \in [1..len -> ProfileValues] :
       \E labels_on \in BOOLEAN, label_ions \in BOOLEAN :
       \E selected_peptide \in PeptideNames \cup {<<>>} :
       \E selected_charge_state \in ChargeStates :
          args = [fn |-> "plot_spectrum",
                  selected_scan |-> [mz |-> [i \in 1..len |-> 100 * i],
                                     intensity |-> RSeq(x),
                                     lower |-> 50, upper |-> 100 * len + 50],
                  labels_on |-> labels_on, label_ions |-> label_ions,
                  selected_peptide |-> selected_peptide,
                  selected_charge_state |-> selected_charge_state]
    /\ result = NoResult

\* Lines 488-489: the value plot_spectrum hands back goes to st.bokeh_chart.
call_plot_spectrum ==
    /\ pc = "call"
    /\ args.fn = "plot_spectrum"
    /\ result' = plot_spectrum(args.selected_scan, args.labels_on, args.label_ions,
                               args.selected_peptide, args.selected_charge_state)
    /\ pc' = "returned"
    /\ UNCHANGED <<storeVarsButPc, args>>

SpecPlot == PlotInit /\ [][call_plot_spectrum]_vars

(***************************************************************************)
(* Properties of plot_spectrum.                                            *)
(***************************************************************************)
PlotReturned == pc = "returned" /\ args.fn = "plot_spectrum"

AnnotationRequested == args.label_ions /\ args.selected_peptide # <<>>

\* C18: every render hands a plot to the chart call, never an absent one:
\* with the annotation on and successful, with the annotation on and the
\* charge-state parse or get_fragments raising, and with the annotation
\* off or no peptide selected; in the latter cases the plot carries the
\* spectrum without the fragment-ion overlay.
C18_PlotAlwaysHandedBack ==
    PlotReturned =>
       /\ result.status = "ok"
       /\ result.value # NoPlot
       /\ result.value.line = [x |-> args.selected_scan.mz,
                               y |-> args.selected_scan.intensity]
       /\ ~AnnotationRequested => result.value.ions = NoIons

====
